---- MODULE Spec2Model ----
(***************************************************************************)
(* PrecisionTimer (the Pacer), TimingStats and AdaptiveFrequencyManager     *)
(* of src/rust_modules/timing/mod.rs.                                      *)
(*                                                                         *)
(* Instants and Durations are integers counting nanoseconds of the         *)
(* monotonic clock.  An Option is a sequence of length 0 (None) or 1       *)
(* (Some).  An f64 frequency is kept as the exact fraction <<num, den>>:   *)
(* 1.0 / elapsed.as_secs_f64() is <<1000000000, elapsed_ns>>.  The other    *)
(* f64 values are exact too: a time in milliseconds is a fraction in       *)
(* lowest terms, a square root is kept as its radicand.                    *)
(***************************************************************************)
EXTENDS Integers, Sequences, FiniteSets, TLC

VARIABLES
    constructed,     \* a PrecisionTimer exists (new returned Ok)
    target_hz,       \* PrecisionTimer.target_hz
    cycle_duration,  \* PrecisionTimer.cycle_duration, ns
    last_cycle,      \* PrecisionTimer.last_cycle : Option<Instant>
    timing_history,  \* PrecisionTimer.timing_history : Vec<Duration>
    max_history,     \* PrecisionTimer.max_history
    clock,           \* the monotonic clock, the last value Instant::now() gave
    marker,          \* the caller's cycle_start : Option<Instant>
    pc,              \* the caller's position in its loop
    recorded,        \* every duration record_timing was given, oldest first
    ret,             \* the last call and what it returned
    base_frequency,          \* AdaptiveFrequencyManager.base_frequency
    current_frequency,       \* AdaptiveFrequencyManager.current_frequency
    frequency_history,       \* AdaptiveFrequencyManager.frequency_history
    adjustment_sensitivity,  \* AdaptiveFrequencyManager.adjustment_sensitivity
    system_time,     \* the wall clock, the last value SystemTime::now() gave
    arg              \* the value a method of a plain value is applied to

vars == <<constructed, target_hz, cycle_duration, last_cycle, timing_history,
          max_history, clock, marker, pc, recorded, ret,
          base_frequency, current_frequency, frequency_history,
          adjustment_sensitivity, system_time, arg>>

timer == <<target_hz, cycle_duration, last_cycle, timing_history, max_history>>

manager == <<base_frequency, current_frequency, frequency_history,
             adjustment_sensitivity>>

\* what no method of PrecisionTimer touches
beside_timer == <<manager, system_time, arg>>

----------------------------------------------------------------------------
\* Program constants

NANOS_PER_SEC == 1000000000
MIN_HZ == 1
MAX_HZ == 50000
HISTORY_CAPACITY == 100
CRITICAL_HZ == 30
MIN_FREQUENCY == 30
MAX_FREQUENCY == 50000
FREQUENCY_HISTORY_CAPACITY == 1000

\* Bounds of the model

MaxCycles == 2
MaxClock == 2000000000
MaxFifoCycles == 104
MaxWindow == 3
MaxAdjusts == 2

\* Inputs

Rates == {0, 1, 30, 50000, 50001}
WorkDeltas == {50000000}
Oversleeps == {0, 33333333}
ReadGaps == {0, 1}

----------------------------------------------------------------------------
\* Values

None == <<>>
Some(x) == <<x>>

Hz(n, d) == <<n, d>>

\* h < k for a fraction h with positive denominator and an integer k > 0
HzBelow(h, k) == (h[1] \div k) < h[2]

Ok == [ok |-> TRUE]
CriticalRhythmFailure(h) == [ok |-> FALSE, kind |-> "CriticalRhythmFailure", hz |-> h]

----------------------------------------------------------------------------
\* Pure parts of the methods

\* the range test of new and set_target_hz
hz_out_of_range(hz) == hz < MIN_HZ \/ hz > MAX_HZ

\* record_timing that drops the element just pushed when over max_history
record_timing_drop_newest(history, cap, cycle_time) ==
    LET pushed == Append(history, cycle_time)
    IN  IF Len(pushed) > cap THEN SubSeq(pushed, 1, cap) ELSE pushed

\* record_timing: push, then drop the front element when over max_history
record_timing(history, cap, cycle_time) ==
    LET pushed == Append(history, cycle_time)
    IN  IF Len(pushed) > cap THEN Tail(pushed) ELSE pushed

\* get_actual_hz without the zero-elapsed branch: 0.0 stands for the failed division
get_actual_hz_unguarded(last, hz, current_time) ==
    IF last # None
    THEN LET elapsed == IF current_time > last[1] THEN current_time - last[1] ELSE 0
         IN  IF elapsed > 0 THEN Hz(NANOS_PER_SEC, elapsed) ELSE Hz(0, 1)
    ELSE Hz(0, 1)

\* get_actual_hz; Instant::duration_since saturates at zero
get_actual_hz(last, hz, current_time) ==
    IF last # None
    THEN LET elapsed == IF current_time > last[1] THEN current_time - last[1] ELSE 0
         IN  IF elapsed > 0 THEN Hz(NANOS_PER_SEC, elapsed) ELSE Hz(hz, 1)
    ELSE Hz(0, 1)

\* Exact arithmetic of the f64 values of a summary: fractions <<num, den>> in
\* lowest terms with den > 0
RECURSIVE GCD(_, _)
GCD(a, b) == IF b = 0 THEN a ELSE GCD(b, a % b)

Abs(i) == IF i < 0 THEN -i ELSE i

Frac(n, d) == LET g == GCD(Abs(n), d) IN <<n \div g, d \div g>>

FAdd(a, b) == Frac(a[1] * b[2] + b[1] * a[2], a[2] * b[2])
FSub(a, b) == Frac(a[1] * b[2] - b[1] * a[2], a[2] * b[2])
FMul(a, b) == Frac(a[1] * b[1], a[2] * b[2])
\* a / b for b > 0
FDiv(a, b) == Frac(a[1] * b[2], a[2] * b[1])
FLe(a, b) == a[1] * b[2] <= b[1] * a[2]

\* d.as_secs_f64() * 1000.0: a Duration of ns nanoseconds in milliseconds
Ms(ns) == Frac(ns, 1000000)

RECURSIVE SeqSum(_)
SeqSum(q) == IF q = <<>> THEN 0 ELSE Head(q) + SeqSum(Tail(q))

SeqMin(q) == CHOOSE x \in {q[i] : i \in 1..Len(q)} : \A i \in 1..Len(q) : x <= q[i]
SeqMax(q) == CHOOSE x \in {q[i] : i \in 1..Len(q)} : \A i \in 1..Len(q) : x >= q[i]

\* iter().sum::<f64>() over a sequence of fractions
RECURSIVE FSum(_)
FSum(q) == IF q = <<>> THEN <<0, 1>> ELSE FAdd(Head(q), FSum(Tail(q)))

\* v.sqrt(): the non-negative number whose square is the fraction v
Sqrt(v) == [sqrt_of |-> v]

\* 1.0 - r.sqrt(): every timing_precision is such a number with 0 <= r <= 1;
\* 0.0 is OneMinusSqrt(<<1, 1>>) and 1.0 is OneMinusSqrt(<<0, 1>>)
OneMinusSqrt(r) == [one_minus_sqrt_of |-> r]

\* the variance with the divisor N - 1 of a sample
variance_of_sample(durations_ms, avg) ==
    LET n == Len(durations_ms)
        sq == [i \in 1..n |-> FMul(FSub(durations_ms[i], avg), FSub(durations_ms[i], avg))]
    IN  IF n = 1 THEN <<0, 1>> ELSE FDiv(FSum(sq), <<n - 1, 1>>)

\* the variance of get_timing_stats: the mean of the squared deviations
variance(durations_ms, avg) ==
    LET n == Len(durations_ms)
        sq == [i \in 1..n |-> FMul(FSub(durations_ms[i], avg), FSub(durations_ms[i], avg))]
    IN  FDiv(FSum(sq), <<n, 1>>)

\* (1.0 - (jitter / avg)).max(0.0) for jitter = Sqrt(var).  With avg = 0 the
\* quotient is 0.0 / 0.0 = NaN, and f64::max of NaN and 0.0 is 0.0.
timing_precision(var, avg) ==
    IF avg = <<0, 1>>
    THEN OneMinusSqrt(<<1, 1>>)
    ELSE LET r == FDiv(var, FMul(avg, avg))
         IN  IF FLe(<<1, 1>>, r) THEN OneMinusSqrt(<<1, 1>>) ELSE OneMinusSqrt(r)

\* TimingStats::default: every field 0.0
TimingStatsDefault ==
    [avg_cycle_time_ms |-> <<0, 1>>, min_cycle_time_ms |-> <<0, 1>>,
     max_cycle_time_ms |-> <<0, 1>>, jitter_ms |-> Sqrt(<<0, 1>>),
     target_cycle_time_ms |-> <<0, 1>>, timing_precision |-> OneMinusSqrt(<<1, 1>>)]

\* get_timing_stats whose empty case fills in the target cycle time
get_timing_stats_target_in_default(history, duration) ==
    IF history = <<>>
    THEN [TimingStatsDefault EXCEPT !.target_cycle_time_ms = Ms(duration)]
    ELSE LET durations_ms == [i \in 1..Len(history) |-> Ms(history[i])]
             avg == FDiv(FSum(durations_ms), <<Len(durations_ms), 1>>)
             var == variance(durations_ms, avg)
         IN  [avg_cycle_time_ms |-> avg,
              min_cycle_time_ms |-> Ms(SeqMin(history)),
              max_cycle_time_ms |-> Ms(SeqMax(history)),
              jitter_ms |-> Sqrt(var),
              target_cycle_time_ms |-> Ms(duration),
              timing_precision |-> timing_precision(var, avg)]

\* get_timing_stats
get_timing_stats(history, duration) ==
    IF history = <<>>
    THEN TimingStatsDefault
    ELSE LET durations_ms == [i \in 1..Len(history) |-> Ms(history[i])]
             avg == FDiv(FSum(durations_ms), <<Len(durations_ms), 1>>)
             var == variance(durations_ms, avg)
         IN  [avg_cycle_time_ms |-> avg,
              min_cycle_time_ms |-> Ms(SeqMin(history)),
              max_cycle_time_ms |-> Ms(SeqMax(history)),
              jitter_ms |-> Sqrt(var),
              target_cycle_time_ms |-> Ms(duration),
              timing_precision |-> timing_precision(var, avg)]

\* p >= t for a timing_precision p and a fraction t <= 1:
\* 1 - sqrt(r) >= t exactly when r <= (1 - t)^2
PrecisionAtLeast(p, t) ==
    LET u == FSub(<<1, 1>>, t) IN FLe(p.one_minus_sqrt_of, FMul(u, u))

\* get_consciousness_health with the Stable test before the Optimal one
get_consciousness_health_stable_first(stats) ==
    LET hz == Hz(1000 * stats.avg_cycle_time_ms[2], stats.avg_cycle_time_ms[1])
    IN  IF ~HzBelow(hz, 60) /\ PrecisionAtLeast(stats.timing_precision, <<8, 10>>)
        THEN "Stable"
        ELSE IF ~HzBelow(hz, 90) /\ PrecisionAtLeast(stats.timing_precision, <<9, 10>>)
        THEN "Optimal"
        ELSE IF ~HzBelow(hz, 30)
        THEN "Needs Support"
        ELSE "Critical"

\* TimingStats::get_consciousness_health; hz = 1000.0 / avg is +infinity for
\* avg = 0.0, a fraction with denominator 0 that is below no threshold
get_consciousness_health(stats) ==
    LET hz == Hz(1000 * stats.avg_cycle_time_ms[2], stats.avg_cycle_time_ms[1])
    IN  IF ~HzBelow(hz, 90) /\ PrecisionAtLeast(stats.timing_precision, <<9, 10>>)
        THEN "Optimal"
        ELSE IF ~HzBelow(hz, 60) /\ PrecisionAtLeast(stats.timing_precision, <<8, 10>>)
        THEN "Stable"
        ELSE IF ~HzBelow(hz, 30)
        THEN "Needs Support"
        ELSE "Critical"

\* the sleep test with its comparison reversed
must_sleep_reversed(target_next, now) == target_next < now

\* whether maintain_hz sleeps, called at now with deadline target_next
must_sleep(target_next, now) == target_next > now

\* the instant the clock shows when std::thread::sleep(dur), called at now, has
\* returned and cycle_start.elapsed() reads it: never before now + dur
sleep_until(now, dur, oversleep) == now + dur + oversleep

\* the rhythm check failing at the threshold too (<= instead of <)
rhythm_result_inclusive(actual_hz) ==
    IF actual_hz[1] <= CRITICAL_HZ * actual_hz[2]
    THEN CriticalRhythmFailure(actual_hz) ELSE Ok

\* the rhythm check that ends maintain_hz
rhythm_result(actual_hz) ==
    IF HzBelow(actual_hz, CRITICAL_HZ) THEN CriticalRhythmFailure(actual_hz) ELSE Ok

----------------------------------------------------------------------------
\* no AdaptiveFrequencyManager has been constructed
NoManager ==
    /\ base_frequency = 0
    /\ current_frequency = 0
    /\ frequency_history = <<>>
    /\ adjustment_sensitivity = <<0, 1>>

Init ==
    /\ constructed = FALSE
    /\ target_hz = 0
    /\ cycle_duration = 0
    /\ last_cycle = None
    /\ timing_history = <<>>
    /\ max_history = 0
    /\ clock = 0
    /\ marker = None
    /\ pc = "idle"
    /\ recorded = <<>>
    /\ ret = [op |-> "none"]
    /\ NoManager
    /\ system_time = 0
    /\ arg = None

\* PrecisionTimer::new
New(hz) ==
    /\ ~constructed
    /\ IF hz_out_of_range(hz)
       THEN /\ ret' = [op |-> "new", arg |-> hz, res |-> CriticalRhythmFailure(Hz(hz, 1))]
            /\ UNCHANGED <<constructed, timer>>
       ELSE /\ constructed' = TRUE
            /\ target_hz' = hz
            /\ cycle_duration' = NANOS_PER_SEC \div hz
            /\ last_cycle' = None
            /\ timing_history' = <<>>
            /\ max_history' = HISTORY_CAPACITY
            /\ ret' = [op |-> "new", arg |-> hz, res |-> Ok]
    /\ UNCHANGED <<clock, marker, pc, recorded, beside_timer>>

\* set_target_hz that leaves the cycle duration of the old rate
SetTargetHzStaleDuration(new_target_hz) ==
    /\ constructed
    /\ IF hz_out_of_range(new_target_hz)
       THEN /\ ret' = [op |-> "set_target_hz", arg |-> new_target_hz,
                       res |-> CriticalRhythmFailure(Hz(new_target_hz, 1))]
            /\ UNCHANGED <<target_hz, cycle_duration>>
       ELSE /\ target_hz' = new_target_hz
            /\ UNCHANGED cycle_duration
            /\ ret' = [op |-> "set_target_hz", arg |-> new_target_hz, res |-> Ok]
    /\ UNCHANGED <<constructed, last_cycle, timing_history, max_history,
                   clock, marker, pc, recorded, beside_timer>>

\* set_target_hz that starts a fresh history for the new rate
SetTargetHzClearing(new_target_hz) ==
    /\ constructed
    /\ IF hz_out_of_range(new_target_hz)
       THEN /\ ret' = [op |-> "set_target_hz", arg |-> new_target_hz,
                       res |-> CriticalRhythmFailure(Hz(new_target_hz, 1))]
            /\ UNCHANGED <<target_hz, cycle_duration, timing_history, last_cycle>>
       ELSE /\ target_hz' = new_target_hz
            /\ cycle_duration' = NANOS_PER_SEC \div new_target_hz
            /\ timing_history' = <<>>
            /\ last_cycle' = None
            /\ ret' = [op |-> "set_target_hz", arg |-> new_target_hz, res |-> Ok]
    /\ UNCHANGED <<constructed, max_history, clock, marker, pc, recorded,
                   beside_timer>>

\* set_target_hz that empties the history and keeps the last deadline
SetTargetHzClearingHistory(new_target_hz) ==
    /\ constructed
    /\ IF hz_out_of_range(new_target_hz)
       THEN /\ ret' = [op |-> "set_target_hz", arg |-> new_target_hz,
                       res |-> CriticalRhythmFailure(Hz(new_target_hz, 1))]
            /\ UNCHANGED <<target_hz, cycle_duration, timing_history>>
       ELSE /\ target_hz' = new_target_hz
            /\ cycle_duration' = NANOS_PER_SEC \div new_target_hz
            /\ timing_history' = <<>>
            /\ ret' = [op |-> "set_target_hz", arg |-> new_target_hz, res |-> Ok]
    /\ UNCHANGED <<constructed, last_cycle, max_history, clock, marker, pc, recorded,
                   beside_timer>>

\* PrecisionTimer::set_target_hz
SetTargetHz(new_target_hz) ==
    /\ constructed
    /\ IF hz_out_of_range(new_target_hz)
       THEN /\ ret' = [op |-> "set_target_hz", arg |-> new_target_hz,
                       res |-> CriticalRhythmFailure(Hz(new_target_hz, 1))]
            /\ UNCHANGED <<target_hz, cycle_duration>>
       ELSE /\ target_hz' = new_target_hz
            /\ cycle_duration' = NANOS_PER_SEC \div new_target_hz
            /\ ret' = [op |-> "set_target_hz", arg |-> new_target_hz, res |-> Ok]
    /\ UNCHANGED <<constructed, last_cycle, timing_history, max_history,
                   clock, marker, pc, recorded, beside_timer>>

\* PrecisionTimer::get_target_hz
GetTargetHz ==
    /\ constructed
    /\ ret' = [op |-> "get_target_hz", value |-> target_hz]
    /\ UNCHANGED <<constructed, timer, clock, marker, pc, recorded, beside_timer>>

\* The squares of the variance fit the integers of TLC for durations that are
\* whole milliseconds: the summary is taken of such histories
WholeMillis(history) == \A i \in 1..Len(history) : history[i] % 1000000 = 0

\* PrecisionTimer::get_timing_stats
GetTimingStats ==
    /\ constructed
    /\ WholeMillis(timing_history)
    /\ ret' = [op |-> "get_timing_stats",
               value |-> get_timing_stats(timing_history, cycle_duration)]
    /\ UNCHANGED <<constructed, timer, clock, marker, pc, recorded, beside_timer>>

\* PrecisionTimer::get_actual_hz
GetActualHz(current_time) ==
    /\ constructed
    /\ ret' = [op |-> "get_actual_hz", now |-> current_time,
               value |-> get_actual_hz(last_cycle, target_hz, current_time)]
    /\ UNCHANGED <<constructed, timer, clock, marker, pc, recorded, beside_timer>>

\* the instants get_actual_hz is asked about
ProbeInstants ==
    {clock} \cup (IF last_cycle = None THEN {} ELSE {last_cycle[1], last_cycle[1] + 1})

\* the caller takes its start marker: let start = Instant::now()
BeginCycle ==
    /\ constructed
    /\ pc = "idle"
    /\ marker' = Some(clock)
    /\ pc' = "begun"
    /\ ret' = [op |-> "begin_cycle", value |-> clock]
    /\ UNCHANGED <<constructed, timer, clock, recorded, beside_timer>>

\* the caller's work of the cycle takes d nanoseconds
Work(d) ==
    /\ pc = "begun"
    /\ clock + d <= MaxClock
    /\ clock' = clock + d
    /\ pc' = "worked"
    /\ ret' = [op |-> "work", value |-> d]
    /\ UNCHANGED <<constructed, timer, marker, recorded, beside_timer>>

\* maintain_hz that checks the rhythm before it records, so that a failing call
\* returns with the history and last_cycle untouched
maintain_hz_check_first(cycle_start, oversleep, gap) ==
    LET target_next == cycle_start + cycle_duration
        now == clock
        slept == must_sleep(target_next, now)
        woke == IF slept THEN sleep_until(now, target_next - now, oversleep) ELSE now
        actual_cycle_time == woke - cycle_start
        read2 == woke + gap
        actual_hz == get_actual_hz(Some(target_next), target_hz, read2)
        res == rhythm_result(actual_hz)
    IN  /\ cycle_start <= MaxClock - cycle_duration
        /\ read2 <= MaxClock
        /\ IF res.ok
           THEN /\ timing_history' =
                       record_timing(timing_history, max_history, actual_cycle_time)
                /\ last_cycle' = Some(target_next)
           ELSE UNCHANGED <<timing_history, last_cycle>>
        /\ recorded' = Append(recorded, actual_cycle_time)
        /\ clock' = read2
        /\ ret' = [op |-> "maintain_hz", cycle_start |-> cycle_start, called_at |-> now,
                   deadline |-> target_next, slept |-> slept, woke_at |-> woke,
                   elapsed |-> actual_cycle_time, checked_at |-> read2,
                   duration |-> cycle_duration, res |-> res]
        /\ UNCHANGED <<constructed, target_hz, cycle_duration, max_history>>

\* the body of maintain_hz for a given cycle_start
maintain_hz(cycle_start, oversleep, gap) ==
    LET target_next == cycle_start + cycle_duration
        now == clock
        slept == must_sleep(target_next, now)
        woke == IF slept THEN sleep_until(now, target_next - now, oversleep) ELSE now
        actual_cycle_time == woke - cycle_start
        read2 == woke + gap
        actual_hz == get_actual_hz(Some(target_next), target_hz, read2)
    IN  /\ cycle_start <= MaxClock - cycle_duration
        /\ read2 <= MaxClock
        /\ timing_history' = record_timing(timing_history, max_history, actual_cycle_time)
        /\ last_cycle' = Some(target_next)
        /\ recorded' = Append(recorded, actual_cycle_time)
        /\ clock' = read2
        /\ ret' = [op |-> "maintain_hz", cycle_start |-> cycle_start, called_at |-> now,
                   deadline |-> target_next, slept |-> slept, woke_at |-> woke,
                   elapsed |-> actual_cycle_time, checked_at |-> read2,
                   duration |-> cycle_duration, res |-> rhythm_result(actual_hz)]
        /\ UNCHANGED <<constructed, target_hz, cycle_duration, max_history>>

\* PrecisionTimer::maintain_hz, called with the caller's marker
MaintainHz(oversleep, gap) ==
    /\ constructed
    /\ pc \in {"begun", "worked"}
    /\ maintain_hz(marker[1], oversleep, gap)
    /\ marker' = None
    /\ pc' = "idle"
    /\ UNCHANGED beside_timer

Cycles == Len(recorded)

Next ==
    \/ \E hz \in Rates : New(hz)
    \/ \E hz \in Rates : SetTargetHz(hz)
    \/ GetTargetHz
    \/ GetTimingStats
    \/ \E t \in ProbeInstants : GetActualHz(t)
    \/ BeginCycle
    \/ \E d \in WorkDeltas : Work(d)
    \/ /\ Cycles < MaxCycles
       /\ \E o \in Oversleeps, g \in ReadGaps : MaintainHz(o, g)

Spec == Init /\ [][Next]_vars

\* A long run at one rate: how late each wake is follows the cycle count, and is
\* free around the cycle that fills the history
FifoOversleeps ==
    {Cycles % 7} \cup (IF Cycles >= HISTORY_CAPACITY - 2 /\ Cycles <= HISTORY_CAPACITY + 1
                       THEN {50} ELSE {})

NextFifo ==
    \/ New(MAX_HZ)
    \/ BeginCycle
    \/ /\ Cycles < MaxFifoCycles
       /\ \E o \in FifoOversleeps : MaintainHz(o, 0)

SpecFifo == Init /\ [][NextFifo]_vars

----------------------------------------------------------------------------
\* The summary of a recorded window

\* the durations of the recorded cycles, ns: 10, 20 and 30 ms
WindowDurations == {10000000, 20000000, 30000000}

\* the rates the timer is set to: 20 Hz as in test_timing_stats
WindowRates == {20, 100}

RECURSIVE Windows(_)
Windows(n) ==
    IF n = 0 THEN {<<>>}
    ELSE Windows(n - 1) \cup
         {Append(w, d) : w \in {v \in Windows(n - 1) : Len(v) = n - 1},
                         d \in WindowDurations}

\* a timer that has recorded the cycles of a window back to back at 100 Hz, the
\* first starting at instant 0, and whose rate is hz now
InitStats ==
    /\ constructed = TRUE
    /\ target_hz \in WindowRates
    /\ cycle_duration = NANOS_PER_SEC \div target_hz
    /\ timing_history \in Windows(MaxWindow)
    /\ recorded = timing_history
    /\ max_history = HISTORY_CAPACITY
    /\ clock = SeqSum(timing_history)
    /\ last_cycle = IF timing_history = <<>> THEN None
                    ELSE Some(clock - timing_history[Len(timing_history)]
                                + NANOS_PER_SEC \div 100)
    /\ marker = None
    /\ pc = "idle"
    /\ ret = [op |-> "none"]
    /\ NoManager
    /\ system_time = 0
    /\ arg = None

NextStats ==
    \/ GetTimingStats
    \/ \E hz \in WindowRates : SetTargetHz(hz)

SpecStats == InitStats /\ [][NextStats]_vars

----------------------------------------------------------------------------
\* The health label of a summary

\* average cycle times, ms: 120, 100, 90, 89.9, 60, 59.9, 45, 30 and 29.9 Hz,
\* and the 0.0 of the default summary
HealthAverages ==
    {<<25, 3>>, <<10, 1>>, <<100, 9>>, <<10000, 899>>, <<50, 3>>, <<10000, 599>>,
     <<200, 9>>, <<100, 3>>, <<10000, 299>>, <<0, 1>>}

\* precisions 1.0, 0.9, 0.89, 0.8, 0.79 and 0.0
HealthPrecisions ==
    {OneMinusSqrt(<<0, 1>>), OneMinusSqrt(<<1, 100>>), OneMinusSqrt(<<121, 10000>>),
     OneMinusSqrt(<<1, 25>>), OneMinusSqrt(<<441, 10000>>), OneMinusSqrt(<<1, 1>>)}

\* no PrecisionTimer has been constructed
NoTimer ==
    /\ constructed = FALSE
    /\ target_hz = 0
    /\ cycle_duration = 0
    /\ last_cycle = None
    /\ timing_history = <<>>
    /\ max_history = 0
    /\ clock = 0
    /\ marker = None
    /\ pc = "idle"
    /\ recorded = <<>>

\* a TimingStats value: its fields are public
InitHealth ==
    /\ NoTimer
    /\ NoManager
    /\ system_time = 0
    /\ ret = [op |-> "none"]
    /\ \E a \in HealthAverages, p \in HealthPrecisions :
           arg = Some([TimingStatsDefault EXCEPT !.avg_cycle_time_ms = a,
                                                 !.timing_precision = p])

\* TimingStats::get_consciousness_health
GetConsciousnessHealth ==
    /\ arg # None
    /\ ret' = [op |-> "get_consciousness_health",
               value |-> get_consciousness_health(arg[1])]
    /\ UNCHANGED <<constructed, timer, clock, marker, pc, recorded, beside_timer>>

NextHealth == GetConsciousnessHealth

SpecHealth == InitHealth /\ [][NextHealth]_vars

----------------------------------------------------------------------------
\* AdaptiveFrequencyManager

\* f64::NAN: the quotient 0.0 / 0.0
NaN == <<0, 0>>
IsNaN(x) == x[2] = 0

\* x.clamp(0.0, 1.0), which keeps NaN
clamp_unit(x) ==
    IF IsNaN(x) THEN NaN
    ELSE IF FLe(x, <<0, 1>>) THEN <<0, 1>>
    ELSE IF FLe(<<1, 1>>, x) THEN <<1, 1>>
    ELSE x

\* 1.0 - x
one_minus(x) == IF IsNaN(x) THEN NaN ELSE FSub(<<1, 1>>, x)

\* 1.0 + (health_factor * load_factor * self.adjustment_sensitivity)
target_multiplier(health_factor, load_factor, sensitivity) ==
    IF IsNaN(health_factor) \/ IsNaN(load_factor) THEN NaN
    ELSE FAdd(<<1, 1>>, FMul(FMul(health_factor, load_factor), sensitivity))

\* (base as f64 * multiplier) as u32: the cast truncates, and gives 0 for NaN
\* and for a negative value
target_frequency(base, multiplier) ==
    IF IsNaN(multiplier) THEN 0
    ELSE LET x == FMul(<<base, 1>>, multiplier)
         IN  IF x[1] < 0 THEN 0 ELSE x[1] \div x[2]

\* u as i32 for a u32 u: two's complement from 2^31 on
as_i32(u) == IF u > 2147483647 THEN (u - 2147483647) - 2147483647 - 2 ELSE u

\* the adjustment as the eleven tenths of the difference
adjustment_amplified(frequency_diff) ==
    IF frequency_diff >= 0 THEN (11 * frequency_diff) \div 10
    ELSE -((11 * (-frequency_diff)) \div 10)

\* the adjustment rounded down, away from zero for a negative difference
adjustment_floor(frequency_diff) == frequency_diff \div 10

\* (frequency_diff as f64 * 0.1) as i32: the cast truncates toward zero
adjustment(frequency_diff) ==
    IF frequency_diff >= 0 THEN frequency_diff \div 10
    ELSE -((-frequency_diff) \div 10)

\* the final clamp without its lower limit
clamp_frequency_above_only(i) ==
    IF i < 0 THEN MAX_FREQUENCY
    ELSE IF i > MAX_FREQUENCY THEN MAX_FREQUENCY
    ELSE i

\* (i as u32).clamp(30, 50000) for an i32 i: a negative i is cast to a u32 of
\* 2^31 at least, above the upper limit
clamp_frequency(i) ==
    IF i < 0 THEN MAX_FREQUENCY
    ELSE IF i < MIN_FREQUENCY THEN MIN_FREQUENCY
    ELSE IF i > MAX_FREQUENCY THEN MAX_FREQUENCY
    ELSE i

\* push, then drop the front element when over 1000
push_frequency(history, entry) ==
    LET pushed == Append(history, entry)
    IN  IF Len(pushed) > FREQUENCY_HISTORY_CAPACITY THEN Tail(pushed) ELSE pushed

\* base frequencies: new takes any u32
Bases == {0, 30, 90, 1000, 45454, 50000, 60000}

\* consciousness_health and processing_load: -0.2, 0.3, 0.9, 1.2 and NaN
Healths == {<<-1, 5>>, <<3, 10>>, <<9, 10>>, <<6, 5>>, NaN}
Loads == {<<-1, 5>>, <<3, 10>>, <<9, 10>>, <<6, 5>>, NaN}

\* AdaptiveFrequencyManager::new(base), beside a timer made by
\* PrecisionTimer::new(50000)
InitManager ==
    /\ base_frequency \in Bases
    /\ current_frequency = base_frequency
    /\ frequency_history = <<>>
    /\ adjustment_sensitivity = <<1, 10>>
    /\ system_time = 0
    /\ arg = None
    /\ constructed = TRUE
    /\ target_hz = MAX_HZ
    /\ cycle_duration = NANOS_PER_SEC \div MAX_HZ
    /\ max_history = HISTORY_CAPACITY
    /\ last_cycle = None
    /\ timing_history = <<>>
    /\ clock = 0
    /\ marker = None
    /\ pc = "idle"
    /\ recorded = <<>>
    /\ ret = [op |-> "new_manager", arg |-> base_frequency]

\* reset_to_base that also forgets the adjustments made
ResetToBaseClearing ==
    /\ current_frequency' = base_frequency
    /\ frequency_history' = <<>>
    /\ ret' = [op |-> "reset_to_base"]
    /\ UNCHANGED <<base_frequency, adjustment_sensitivity, system_time, arg,
                   constructed, timer, clock, marker, pc, recorded>>

\* AdaptiveFrequencyManager::adjust_frequency
AdjustFrequency(consciousness_health, processing_load) ==
    LET now == system_time + 1
        health_factor == clamp_unit(consciousness_health)
        load_factor == clamp_unit(one_minus(processing_load))
        multiplier == target_multiplier(health_factor, load_factor, adjustment_sensitivity)
        target == target_frequency(base_frequency, multiplier)
        frequency_diff == as_i32(target) - as_i32(current_frequency)
        adjusted == clamp_frequency(as_i32(current_frequency) + adjustment(frequency_diff))
    IN  /\ system_time' = now
        /\ current_frequency' = adjusted
        /\ frequency_history' =
               push_frequency(frequency_history, <<now, adjusted, consciousness_health>>)
        /\ ret' = [op |-> "adjust_frequency", health |-> consciousness_health,
                   load |-> processing_load, before |-> current_frequency,
                   value |-> adjusted]
        /\ UNCHANGED <<base_frequency, adjustment_sensitivity, arg,
                       constructed, timer, clock, marker, pc, recorded>>

\* AdaptiveFrequencyManager::get_current_frequency
GetCurrentFrequency ==
    /\ ret' = [op |-> "get_current_frequency", value |-> current_frequency]
    /\ UNCHANGED <<manager, system_time, arg,
                   constructed, timer, clock, marker, pc, recorded>>

\* AdaptiveFrequencyManager::reset_to_base
ResetToBase ==
    /\ current_frequency' = base_frequency
    /\ ret' = [op |-> "reset_to_base"]
    /\ UNCHANGED <<base_frequency, frequency_history, adjustment_sensitivity,
                   system_time, arg, constructed, timer, clock, marker, pc, recorded>>

\* the caller hands the rate adjust_frequency returned to set_target_hz
Retarget ==
    /\ ret.op = "adjust_frequency"
    /\ SetTargetHz(ret.value)

Adjusts == Len(frequency_history)

NextManager ==
    \/ /\ Adjusts < MaxAdjusts
       /\ \E h \in Healths, l \in Loads : AdjustFrequency(h, l)
    \/ GetCurrentFrequency
    \/ ResetToBase
    \/ Retarget

SpecManager == InitManager /\ [][NextManager]_vars

----------------------------------------------------------------------------
\* What the calls are expected to do

InRange(hz) == hz >= 1 /\ hz <= 50000

Min(a, b) == IF a < b THEN a ELSE b

\* C1: new succeeds for every rate in [1, 50000], giving a timer whose cycle
\* duration is 1_000_000_000 / rate with an empty history and no last
\* deadline, and fails with the error kind InvalidFrequency for every rate
\* outside the range.
C1_CreateContract ==
    ret.op = "new" =>
        IF InRange(ret.arg)
        THEN /\ ret.res.ok
             /\ constructed
             /\ target_hz = ret.arg
             /\ cycle_duration = 1000000000 \div ret.arg
             /\ timing_history = <<>>
             /\ last_cycle = None
        ELSE /\ ~ret.res.ok
             /\ ret.res.kind = "InvalidFrequency"
             /\ ~constructed

\* C2: set_target_hz with a rate outside [1, 50000] fails with InvalidFrequency
\* and leaves target rate, cycle duration, history and last deadline as they
\* were.
C2_RetargetRejectContract ==
    [][(ret'.op = "set_target_hz" /\ ~InRange(ret'.arg)) =>
          /\ ~ret'.res.ok
          /\ ret'.res.kind = "InvalidFrequency"
          /\ UNCHANGED timer]_vars

\* C3: maintain_hz fails with CriticalRhythmFailure{hz} exactly when the
\* rate get_actual_hz gives, at the instant read after the wait and with
\* last_cycle already set to this cycle's deadline, is below 30 Hz; in every
\* other case it returns Ok.
C3_FailsIffBelowThreshold ==
    ret.op = "maintain_hz" =>
        LET hz == get_actual_hz(Some(ret.deadline), target_hz, ret.checked_at)
        IN  /\ last_cycle = Some(ret.deadline)
            /\ IF HzBelow(hz, 30)
               THEN ret.res = CriticalRhythmFailure(hz)
               ELSE ret.res = Ok

\* a call that failed because the clock was read too long after the deadline
C3_Witness ==
    /\ ret.op = "maintain_hz"
    /\ ~ret.res.ok
    /\ ret.res.kind = "CriticalRhythmFailure"
    /\ ret.checked_at > ret.deadline

\* C4: every maintain_hz call, failing or not, has appended the elapsed time of
\* the cycle to the history and set last_cycle to cycle_start + cycle_duration
\* when it returns; the state it leaves does not depend on its result.
C4_RecordsBeforeReturning ==
    [][ret'.op = "maintain_hz" =>
          /\ timing_history' =
                 (IF Len(timing_history) < max_history
                  THEN Append(timing_history, ret'.elapsed)
                  ELSE Append(Tail(timing_history), ret'.elapsed))
          /\ ret'.elapsed = ret'.woke_at - ret'.cycle_start
          /\ last_cycle' = Some(ret'.cycle_start + cycle_duration)]_vars

\* a failing call that has recorded its cycle
C4_Witness ==
    /\ ret.op = "maintain_hz"
    /\ ~ret.res.ok
    /\ timing_history # <<>>
    /\ timing_history[Len(timing_history)] = ret.elapsed
    /\ last_cycle = Some(ret.cycle_start + cycle_duration)

\* C5: at any valid target rate, the rates below 30 Hz included, maintain_hz
\* of a cycle that did not overrun (called at or before the deadline, woken
\* at the deadline) returns Ok.
C5_OnTimeCycleSucceeds ==
    (/\ ret.op = "maintain_hz"
     /\ ret.called_at <= ret.deadline
     /\ ret.woke_at = ret.deadline) => ret.res.ok

\* C6: after n completed cycles the history holds exactly the min(n, 100)
\* most recently recorded durations in insertion order; its length never
\* exceeds 100, and an insertion into a full history drops the oldest element.
C6_WindowIsLatestSuffix ==
    LET n == Len(recorded)
        k == Min(n, 100)
    IN  /\ Len(timing_history) <= 100
        /\ Len(timing_history) = k
        /\ timing_history = SubSeq(recorded, n - k + 1, n)

\* the history is full and its oldest elements have been evicted
C6_Witness ==
    /\ Len(recorded) > 102
    /\ Len(timing_history) = 100
    /\ timing_history[1] # recorded[1]
    /\ timing_history[100] = recorded[Len(recorded)]

\* C7: a successful set_target_hz replaces target rate and cycle duration and
\* leaves history and last deadline alone; maintain_hz never changes target
\* rate or cycle duration; get_timing_stats, get_actual_hz and get_target_hz
\* change nothing of the timer.
C7_FrameOfEachCall ==
    [][/\ (ret'.op = "set_target_hz" /\ ret'.res.ok) =>
              /\ target_hz' = ret'.arg
              /\ cycle_duration' = 1000000000 \div ret'.arg
              /\ UNCHANGED <<timing_history, last_cycle, max_history>>
       /\ ret'.op = "maintain_hz" =>
              UNCHANGED <<target_hz, cycle_duration, max_history>>
       /\ ret'.op \in {"get_timing_stats", "get_actual_hz", "get_target_hz"} =>
              UNCHANGED timer]_vars

\* a retarget to another rate that kept the history recorded under the old one
C7_Witness ==
    /\ ret.op = "set_target_hz"
    /\ ret.res.ok
    /\ timing_history # <<>>
    /\ last_cycle # None
    /\ timing_history[1] < cycle_duration

\* C8: in every state of a constructed timer the target rate is in
\* [1, 50000] and the cycle duration is 1_000_000_000 / target rate,
\* truncated, whether the rate came from new or from set_target_hz.
C8_DurationMatchesRate ==
    constructed => /\ InRange(target_hz)
                   /\ cycle_duration = 1000000000 \div target_hz

\* a retarget, after a completed cycle, to a rate whose division truncates
C8_Witness ==
    /\ ret.op = "set_target_hz"
    /\ ret.res.ok
    /\ ret.arg = 30
    /\ cycle_duration = 33333333
    /\ Len(recorded) > 0

\* C9: get_actual_hz(now) returns 0 while no cycle has completed; afterwards
\* it returns 1 / (now - last_cycle) when now is after last_cycle, and the
\* target rate when now equals last_cycle.
C9_InstantaneousRate ==
    ret.op = "get_actual_hz" =>
        /\ last_cycle = None => ret.value = <<0, 1>>
        /\ (last_cycle # None /\ ret.now > last_cycle[1]) =>
               ret.value = <<1000000000, ret.now - last_cycle[1]>>
        /\ (last_cycle # None /\ ret.now = last_cycle[1]) =>
               ret.value = <<target_hz, 1>>

\* the rate asked for at the very instant of the last deadline
C9_Witness ==
    /\ ret.op = "get_actual_hz"
    /\ last_cycle # None
    /\ ret.now = last_cycle[1]
    /\ ret.value = <<target_hz, 1>>

\* C10: maintain_hz never returns before its deadline and never waits once
\* the deadline has passed: called before cycle_start + cycle_duration it
\* sleeps until the deadline at least, otherwise it does not sleep; so the
\* duration it records is at least the cycle duration in force.
C10_WaitsExactlyWhenEarly ==
    ret.op = "maintain_hz" =>
        /\ ret.deadline = ret.cycle_start + ret.duration
        /\ ret.checked_at >= ret.deadline
        /\ ret.slept <=> (ret.called_at < ret.deadline)
        /\ ret.slept => ret.woke_at >= ret.deadline
        /\ ~ret.slept => ret.woke_at = ret.called_at
        /\ ret.elapsed >= ret.duration
        /\ timing_history[Len(timing_history)] = ret.elapsed

\* a call made before the deadline that slept and woke exactly at it
C10_Witness ==
    /\ ret.op = "maintain_hz"
    /\ ret.slept
    /\ ret.called_at > ret.cycle_start
    /\ ret.woke_at = ret.deadline
    /\ ret.elapsed = ret.duration

\* C11: the health label is the first match of a cascade over Hz = 1000 / avg
\* and the precision: Optimal iff Hz >= 90 and precision >= 0.9; else Stable
\* iff Hz >= 60 and precision >= 0.8; else Needs Support iff Hz >= 30; else
\* Critical.  So (90, 0.9) is Optimal, (89.9, 0.9) and (60, 0.8) are Stable,
\* (59.9, 1.0) and (30, 0) are Needs Support, and 29.9 Hz is Critical.
C11_HealthCascade ==
    ret.op = "get_consciousness_health" =>
        LET a == arg[1].avg_cycle_time_ms
            r == arg[1].timing_precision.one_minus_sqrt_of
            HzAtLeast(k) == 1000 * a[2] >= k * a[1]
            optimal == HzAtLeast(90) /\ 100 * r[1] <= r[2]
            stable == ~optimal /\ HzAtLeast(60) /\ 25 * r[1] <= r[2]
            support == ~optimal /\ ~stable /\ HzAtLeast(30)
        IN  /\ ret.value = "Optimal" <=> optimal
            /\ ret.value = "Stable" <=> stable
            /\ ret.value = "Needs Support" <=> support
            /\ ret.value = "Critical" <=> ~HzAtLeast(30)
            /\ (a = <<100, 9>> /\ r = <<1, 100>>) => ret.value = "Optimal"
            /\ (a = <<10000, 899>> /\ r = <<1, 100>>) => ret.value = "Stable"
            /\ (a = <<50, 3>> /\ r = <<1, 25>>) => ret.value = "Stable"
            /\ (a = <<10000, 599>> /\ r = <<0, 1>>) => ret.value = "Needs Support"
            /\ (a = <<100, 3>> /\ r = <<1, 1>>) => ret.value = "Needs Support"
            /\ a = <<10000, 299>> => ret.value = "Critical"

\* a summary at 89.9 Hz with precision 0.9 that fell through to Stable
C11_Witness ==
    /\ ret.op = "get_consciousness_health"
    /\ arg[1].avg_cycle_time_ms = <<10000, 899>>
    /\ arg[1].timing_precision = OneMinusSqrt(<<1, 100>>)
    /\ ret.value = "Stable"

\* C12: for a non-empty history get_timing_stats gives the mean, the least
\* and the greatest duration in ms, the jitter as the population standard
\* deviation (divisor N), and the precision max(0, 1 - jitter / avg), which is
\* within [0, 1] and is 0 when the average is 0; for 10, 20, 30 ms: average
\* 20, minimum 10, maximum 30, jitter 8.165, precision 0.5918.
C12_SummaryOfWindow ==
    /\ get_timing_stats(<<0, 0>>, cycle_duration).timing_precision = OneMinusSqrt(<<1, 1>>)
    /\ (ret.op = "get_timing_stats" /\ timing_history # <<>>) =>
        LET n == Len(timing_history)
            m == [i \in 1..n |-> timing_history[i] \div 1000000]
            S == SeqSum(m)
            D == SeqSum([i \in 1..n |-> (n * m[i] - S) * (n * m[i] - S)])
            v == ret.value.jitter_ms.sqrt_of
            r == ret.value.timing_precision.one_minus_sqrt_of
        IN  /\ ret.value.avg_cycle_time_ms[1] * n = S * ret.value.avg_cycle_time_ms[2]
            /\ ret.value.min_cycle_time_ms = <<SeqMin(m), 1>>
            /\ ret.value.max_cycle_time_ms = <<SeqMax(m), 1>>
            /\ v[1] * n * n * n = v[2] * D
            /\ 0 <= r[1] /\ r[1] <= r[2]
            /\ IF D >= n * S * S THEN r = <<1, 1>> ELSE r[1] * n * S * S = r[2] * D
            /\ m = <<10, 20, 30>> =>
                   /\ ret.value.avg_cycle_time_ms = <<20, 1>>
                   /\ 66650896 * v[2] < 1000000 * v[1]
                   /\ 1000000 * v[1] < 66683556 * v[2]
                   /\ 16654561 * r[2] < 100000000 * r[1]
                   /\ 100000000 * r[1] < 16670889 * r[2]

\* the summary of the history 10 ms, 20 ms, 30 ms: variance 200/3
C12_Witness ==
    /\ ret.op = "get_timing_stats"
    /\ timing_history = <<10000000, 20000000, 30000000>>
    /\ ret.value.jitter_ms = Sqrt(<<200, 3>>)
    /\ ret.value.timing_precision = OneMinusSqrt(<<1, 6>>)

\* C13: for a non-empty history the target_cycle_time_ms of the summary is the
\* cycle duration of the current target rate in ms (50.0 at 20 Hz), also
\* after a set_target_hz between cycles; for an empty history the summary is
\* the default, all six fields 0, target_cycle_time_ms too.
C13_TargetOfSummary ==
    /\ get_timing_stats(<<50000000>>, 1000000000 \div 20).target_cycle_time_ms = <<50, 1>>
    /\ ret.op = "get_timing_stats" =>
        IF timing_history = <<>>
        THEN /\ ret.value.avg_cycle_time_ms = <<0, 1>>
             /\ ret.value.min_cycle_time_ms = <<0, 1>>
             /\ ret.value.max_cycle_time_ms = <<0, 1>>
             /\ ret.value.jitter_ms.sqrt_of = <<0, 1>>
             /\ ret.value.target_cycle_time_ms = <<0, 1>>
             /\ ret.value.timing_precision.one_minus_sqrt_of = <<1, 1>>
        ELSE LET t == ret.value.target_cycle_time_ms
             IN  /\ 1000000 % t[2] = 0
                 /\ t[1] * (1000000 \div t[2]) = 1000000000 \div target_hz

\* the summary of a history recorded under a faster rate than the current one
C13_Witness ==
    /\ ret.op = "get_timing_stats"
    /\ timing_history # <<>>
    /\ timing_history[1] < cycle_duration
    /\ ret.value.target_cycle_time_ms = <<1000, 1>>

\* a number of tenths as the integer count of its tenths
Tenths(x) == x[1] * (10 \div x[2])

ClampInt(i, lo, hi) == IF i < lo THEN lo ELSE IF i > hi THEN hi ELSE i

\* the desired rate of a call: trunc(base * (1 + h * (1 - l) * 0.10)) with h
\* and l the inputs clamped to [0, 1]; a NaN input makes it 0
DesiredRate(base, health, load) ==
    IF IsNaN(health) \/ IsNaN(load) THEN 0
    ELSE LET h == ClampInt(Tenths(health), 0, 10)
             l == ClampInt(Tenths(load), 0, 10)
         IN  (base * (1000 + h * (10 - l))) \div 1000

\* C14: every rate adjust_frequency returns, for any base rate, any earlier
\* adjust_frequency and reset_to_base calls and any inputs, is within
\* [30, 50000]; so set_target_hz given such a rate never fails.
C14_AdjustedRateInRange ==
    /\ ret.op = "adjust_frequency" =>
           /\ ret.value >= 30 /\ ret.value <= 50000
           /\ InRange(ret.value)
           /\ current_frequency = ret.value
    /\ ret.op = "set_target_hz" => ret.res.ok /\ target_hz = ret.arg

\* a manager of base rate 0 whose adjusted rate, raised to 30, was accepted
\* by set_target_hz
C14_Witness ==
    /\ base_frequency = 0
    /\ ret.op = "set_target_hz"
    /\ ret.arg = 30
    /\ current_frequency = 30
    /\ target_hz = 30

\* C15: on a fresh manager of base rate b in [30, 50000] the first
\* adjust_frequency(h1, l1) returns a rate >= b, and an adjust_frequency(h2, l2)
\* right after it with h2 <= h1 and l2 >= l1 returns a rate <= the first result.
C15_LowerInputsLowerRate ==
    [][(/\ ret.op = "adjust_frequency"
        /\ Adjusts = 1
        /\ ret.before = base_frequency
        /\ base_frequency >= 30 /\ base_frequency <= 50000
        /\ ~IsNaN(ret.health) /\ ~IsNaN(ret.load)
        /\ ret'.op = "adjust_frequency"
        /\ ~IsNaN(ret'.health) /\ ~IsNaN(ret'.load)
        /\ FLe(ret'.health, ret.health)
        /\ FLe(ret.load, ret'.load))
       => /\ ret.value >= base_frequency
          /\ ret'.value <= ret.value]_vars

\* C16: repeated adjust_frequency calls with the same inputs, the desired rate
\* being within [30, 50000], bring the current rate to the desired rate, where
\* it stays.  The calls are deterministic, so a call that leaves the rate
\* where it was has the same outcome ever after: it must have reached the
\* desired rate.
C16_RestsOnlyAtDesiredRate ==
    (/\ ret.op = "adjust_frequency"
     /\ ~IsNaN(ret.health) /\ ~IsNaN(ret.load)
     /\ DesiredRate(base_frequency, ret.health, ret.load) >= 30
     /\ DesiredRate(base_frequency, ret.health, ret.load) <= 50000
     /\ ret.value = ret.before)
    => ret.value = DesiredRate(base_frequency, ret.health, ret.load)

\* C17: reset_to_base sets the current rate to the base rate after any
\* adjustments and changes nothing else of the manager (base rate,
\* sensitivity, history); get_current_frequency changes nothing.
C17_FrameOfResetAndCurrent ==
    [][/\ ret'.op = "reset_to_base" =>
              /\ current_frequency' = base_frequency
              /\ UNCHANGED <<base_frequency, frequency_history,
                             adjustment_sensitivity>>
       /\ ret'.op = "get_current_frequency" =>
              /\ ret'.value = current_frequency
              /\ UNCHANGED manager]_vars

\* a reset that took back an adjustment and kept its record in the history
C17_Witness ==
    /\ ret.op = "reset_to_base"
    /\ frequency_history # <<>>
    /\ frequency_history[Len(frequency_history)][2] # base_frequency
    /\ current_frequency = base_frequency

\* C18: adjust_frequency computes, with h and l the inputs clamped to [0, 1],
\* desired = trunc(base * (1 + h * (1 - l) * 0.10)), step = trunc((desired -
\* current) * 0.10), truncating toward zero for a negative gap too, and the new
\* current rate clamp(current + step, 30, 50000); it returns the new current
\* rate, which get_current_frequency returns afterwards.
C18_AdjustComputation ==
    /\ (ret.op = "adjust_frequency" /\ ~IsNaN(ret.health) /\ ~IsNaN(ret.load)) =>
           LET desired == DesiredRate(base_frequency, ret.health, ret.load)
               gap == desired - ret.before
               step == IF gap >= 0 THEN gap \div 10 ELSE -((-gap) \div 10)
           IN  /\ ret.value = ClampInt(ret.before + step, 30, 50000)
               /\ current_frequency = ret.value
    /\ ret.op = "get_current_frequency" => ret.value = current_frequency

\* a call whose desired rate is below the current rate by less than a multiple
\* of ten: the step is cut toward zero
C18_Witness ==
    /\ ret.op = "adjust_frequency"
    /\ ~IsNaN(ret.health) /\ ~IsNaN(ret.load)
    /\ DesiredRate(base_frequency, ret.health, ret.load) < ret.before
    /\ (ret.before - DesiredRate(base_frequency, ret.health, ret.load)) % 10 # 0
    /\ ret.value = ret.before
                    - ((ret.before - DesiredRate(base_frequency, ret.health, ret.load)) \div 10)
    /\ ret.value > 30

\* C19: for a base rate in [30, 45454] the current rate after each
\* adjust_frequency lies between the current rate before it and the desired
\* rate of the call, both included: it never passes the desired rate.
C19_NeverOvershoots ==
    (ret.op = "adjust_frequency" /\ base_frequency >= 30 /\ base_frequency <= 45454) =>
        LET desired == DesiredRate(base_frequency, ret.health, ret.load)
        IN  \/ ret.before <= ret.value /\ ret.value <= desired
            \/ desired <= ret.value /\ ret.value <= ret.before

\* a second call that moved the rate down toward a lower desired rate
C19_Witness ==
    /\ ret.op = "adjust_frequency"
    /\ Adjusts = 2
    /\ base_frequency = 45454
    /\ ret.value < ret.before
    /\ DesiredRate(base_frequency, ret.health, ret.load) < ret.value

\* C20: in every state of the timer last_cycle is None exactly when the
\* history is empty: the first maintain_hz sets both and no call clears
\* either; so get_actual_hz returns 0 exactly when get_timing_stats returns
\* the default, all-zero summary.
C20_DeadlineIffHistory ==
    /\ (last_cycle = None) <=> (timing_history = <<>>)
    /\ ret.op = "maintain_hz" => (last_cycle # None /\ timing_history # <<>>)
    /\ ret.op = "get_actual_hz" =>
           ((ret.value = <<0, 1>>) <=> (timing_history = <<>>))
    /\ ret.op = "get_timing_stats" =>
           /\ (ret.value = TimingStatsDefault) <=> (last_cycle = None)
           /\ (ret.value.target_cycle_time_ms = <<0, 1>>) <=> (last_cycle = None)

\* the summary taken after the first cycle, with a deadline on record
C20_Witness ==
    /\ ret.op = "get_timing_stats"
    /\ Len(recorded) = 1
    /\ last_cycle # None
    /\ ret.value # TimingStatsDefault

\* C21: for a manager of base rate b in [30, 45454], after any
\* adjust_frequency and reset_to_base calls with any inputs,
\* b <= current_frequency <= trunc(1.10 * b): the rate is never below the base.
C21_RateWithinTenthAboveBase ==
    (base_frequency >= 30 /\ base_frequency <= 45454) =>
        /\ base_frequency <= current_frequency
        /\ current_frequency <= (11 * base_frequency) \div 10

====
